---- MODULE Spec2Model ----
(***************************************************************************)
(* Model of the health-assistant MCP server (src/main.py): three read-only *)
(* tools, get_claim_details, get_plan_benefits and                         *)
(* get_health_provider_details, over three module-level mock datasets.     *)
(*                                                                         *)
(* Strings the callers supply, and the stored strings they are compared    *)
(* with (claim numbers, plan ids, zip codes, provider names), are          *)
(* sequences of one-character strings, so that case and prefixes are       *)
(* visible.  Fields that are only copied into the result are TLA+ strings. *)
(* Amounts are whole dollars (the source's floats have no cents).          *)
(***************************************************************************)
EXTENDS Integers, Sequences, FiniteSets, TLC

VARIABLES MOCK_CLAIMS, MOCK_PLAN_BENEFITS, MOCK_PROVIDERS, pc, call, outcome

vars == <<MOCK_CLAIMS, MOCK_PLAN_BENEFITS, MOCK_PROVIDERS, pc, call, outcome>>

datasets == <<MOCK_CLAIMS, MOCK_PLAN_BENEFITS, MOCK_PROVIDERS>>

(***************************************************************************)
(* Bounds                                                                  *)
(***************************************************************************)
\* number of callers the host may have in flight at once
NumClients == 2

\* longest generated name filter (the named sample filters are longer)
MaxFilterLen == 2

Clients == 1..NumClients

(***************************************************************************)
(* Record schemas                                                          *)
(***************************************************************************)
ClaimStatus == {"PENDING", "APPROVED", "DENIED", "PAID"}

None == "None"

\* an exception raised out of a handler
Raise(kind, what, id) ==
    [tag |-> "raise", kind |-> kind, what |-> what, id |-> id]

\* a value returned by a handler
Return(value) == [tag |-> "return", value |-> value]

NoOutcome == [tag |-> "none"]

\* ClaimDetails(claim_number=claim_number, **fields); status must be a
\* member of the ClaimStatus enum
ClaimDetailsSwapped(claim_number, fields) ==
    Return([claim_number           |-> claim_number,
            status                 |-> fields.status,
            date_of_service        |-> fields.date_of_service,
            provider_name          |-> fields.provider_name,
            total_amount           |-> fields.total_amount,
            amount_covered         |-> fields.patient_responsibility,
            patient_responsibility |-> fields.amount_covered,
            service_description    |-> fields.service_description])

ClaimDetails(claim_number, fields) ==
    IF fields.status \notin ClaimStatus
    THEN Raise("ValidationError", "ClaimDetails", <<"s","t","a","t","u","s">>)
    ELSE Return([claim_number           |-> claim_number,
                 status                 |-> fields.status,
                 date_of_service        |-> fields.date_of_service,
                 provider_name          |-> fields.provider_name,
                 total_amount           |-> fields.total_amount,
                 amount_covered         |-> fields.amount_covered,
                 patient_responsibility |-> fields.patient_responsibility,
                 service_description    |-> fields.service_description])

\* PlanBenefit(**benefit); limitations is Optional and defaults to None
PlanBenefit(benefit) ==
    [service     |-> benefit.service,
     coverage    |-> benefit.coverage,
     limitations |-> IF "limitations" \in DOMAIN benefit
                     THEN benefit.limitations ELSE None]

\* ProviderDetails(**provider)
ProviderDetails(provider) ==
    [name                   |-> provider.name,
     specialty              |-> provider.specialty,
     address                |-> provider.address,
     city                   |-> provider.city,
     state                  |-> provider.state,
     zip_code               |-> provider.zip_code,
     phone                  |-> provider.phone,
     accepting_new_patients |-> provider.accepting_new_patients,
     languages              |-> provider.languages]

(***************************************************************************)
(* Mock data, as the module initialises it                                 *)
(***************************************************************************)
CLM123456 == <<"C","L","M","1","2","3","4","5","6">>

CLM789012 == <<"C","L","M","7","8","9","0","1","2">>

InitClaims ==
    [k \in {CLM123456, CLM789012} |->
        IF k = CLM123456
        THEN [status                 |-> "APPROVED",
              date_of_service        |-> "2023-10-15",
              provider_name          |-> "Dr. Sarah Johnson",
              total_amount           |-> 1200,
              amount_covered         |-> 1000,
              patient_responsibility |-> 200,
              service_description    |-> "Annual physical examination"]
        ELSE [status                 |-> "PENDING",
              date_of_service        |-> "2023-11-01",
              provider_name          |-> "City Medical Center",
              total_amount           |-> 2500,
              amount_covered         |-> 2000,
              patient_responsibility |-> 500,
              service_description    |-> "MRI Scan"]]

Benefit(s, c, l) == [service |-> s, coverage |-> c, limitations |-> l]

PLAN001 == <<"P","L","A","N","0","0","1">>

PLAN002 == <<"P","L","A","N","0","0","2">>

InitPlanBenefits ==
    [k \in {PLAN001, PLAN002} |->
        IF k = PLAN001
        THEN << Benefit("Primary Care Visit", "$30 copay", "Up to 4 visits per year"),
                Benefit("Specialist Visit", "$50 copay", "Requires referral"),
                Benefit("Emergency Room", "$300 copay", "After deductible"),
                Benefit("Prescription Drugs",
                        "Tier 1: $10, Tier 2: $30, Tier 3: $50", "30-day supply") >>
        ELSE << Benefit("Primary Care Visit", "$20 copay", "Up to 6 visits per year"),
                Benefit("Specialist Visit", "$40 copay", "No referral needed"),
                Benefit("Emergency Room", "$250 copay", "After deductible"),
                Benefit("Prescription Drugs",
                        "Tier 1: $5, Tier 2: $25, Tier 3: $45",
                        "90-day supply available") >>]

NameSarahJohnson ==
    <<"D","r","."," ","S","a","r","a","h"," ","J","o","h","n","s","o","n">>

NameMichaelChen ==
    <<"D","r","."," ","M","i","c","h","a","e","l"," ","C","h","e","n">>

NameEmilyWilson ==
    <<"D","r","."," ","E","m","i","l","y"," ","W","i","l","s","o","n">>

Zip10001 == <<"1","0","0","0","1">>

Zip02108 == <<"0","2","1","0","8">>

InitProviders ==
    << [name                   |-> NameSarahJohnson,
        specialty              |-> "Family Medicine",
        address                |-> "123 Health St, Suite 100",
        city                   |-> "New York",
        state                  |-> "NY",
        zip_code               |-> Zip10001,
        phone                  |-> "(212) 555-0101",
        accepting_new_patients |-> TRUE,
        languages              |-> <<"English", "Spanish">>],
       [name                   |-> NameMichaelChen,
        specialty              |-> "Cardiology",
        address                |-> "456 Heart Ave",
        city                   |-> "New York",
        state                  |-> "NY",
        zip_code               |-> Zip10001,
        phone                  |-> "(212) 555-0202",
        accepting_new_patients |-> FALSE,
        languages              |-> <<"English", "Mandarin">>],
       [name                   |-> NameEmilyWilson,
        specialty              |-> "Pediatrics",
        address                |-> "789 Child St",
        city                   |-> "Boston",
        state                  |-> "MA",
        zip_code               |-> Zip02108,
        phone                  |-> "(617) 555-0303",
        accepting_new_patients |-> TRUE,
        languages              |-> <<"English", "French">>] >>

(***************************************************************************)
(* str.lower() and the `in` operator on strings                            *)
(***************************************************************************)
UpperCase == <<"A","B","C","D","E","F","G","H","I","J","K","L","M",
               "N","O","P","Q","R","S","T","U","V","W","X","Y","Z">>

LowerCase == <<"a","b","c","d","e","f","g","h","i","j","k","l","m",
               "n","o","p","q","r","s","t","u","v","w","x","y","z">>

lower_char(ch) ==
    IF \E i \in 1..Len(UpperCase) : UpperCase[i] = ch
    THEN LowerCase[CHOOSE i \in 1..Len(UpperCase) : UpperCase[i] = ch]
    ELSE ch

\* a lower() that leaves the text as it is
lower_identity(s) == s

\* s.lower()
lower(s) == [i \in 1..Len(s) |-> lower_char(s[i])]

\* sub in s
str_contains(sub, s) ==
    \E i \in 0..(Len(s) - Len(sub)) : SubSeq(s, i + 1, i + Len(sub)) = sub

(***************************************************************************)
(* The three tools as functions of their arguments and the datasets        *)
(***************************************************************************)
\* a lookup that ignores the letter case of the claim number
claim_details_any_case(claim_number) ==
    IF \A k \in DOMAIN MOCK_CLAIMS : lower(k) # lower(claim_number)
    THEN Raise("ValueError", "Claim", claim_number)
    ELSE ClaimDetails(claim_number,
                      MOCK_CLAIMS[CHOOSE k \in DOMAIN MOCK_CLAIMS :
                                      lower(k) = lower(claim_number)])

claim_details(claim_number) ==
    IF claim_number \notin DOMAIN MOCK_CLAIMS
    THEN Raise("ValueError", "Claim", claim_number)
    ELSE ClaimDetails(claim_number, MOCK_CLAIMS[claim_number])

\* a lookup that returns the benefits last entry first
plan_benefits_reversed(plan_id) ==
    IF plan_id \notin DOMAIN MOCK_PLAN_BENEFITS
    THEN Raise("ValueError", "Plan", plan_id)
    ELSE LET stored == MOCK_PLAN_BENEFITS[plan_id]
         IN  Return([i \in 1..Len(stored) |->
                        PlanBenefit(stored[Len(stored) + 1 - i])])

\* a lookup that takes a plan without benefits for a missing plan
plan_benefits_falsy(plan_id) ==
    IF plan_id \notin DOMAIN MOCK_PLAN_BENEFITS
       \/ MOCK_PLAN_BENEFITS[plan_id] = <<>>
    THEN Raise("ValueError", "Plan", plan_id)
    ELSE LET stored == MOCK_PLAN_BENEFITS[plan_id]
         IN  Return([i \in 1..Len(stored) |-> PlanBenefit(stored[i])])

plan_benefits(plan_id) ==
    IF plan_id \notin DOMAIN MOCK_PLAN_BENEFITS
    THEN Raise("ValueError", "Plan", plan_id)
    ELSE LET stored == MOCK_PLAN_BENEFITS[plan_id]
         IN  Return([i \in 1..Len(stored) |-> PlanBenefit(stored[i])])

\* if provider_name: results = [p for p in results if ... in p["name"].lower()]
name_filter(results, provider_name) ==
    IF provider_name # <<>>
    THEN LET folded == lower(provider_name)
         IN  SelectSeq(results, LAMBDA p : str_contains(folded, lower(p.name)))
    ELSE results

\* a zip filter that is applied even when no zip code is given
zip_filter_unguarded(results, zip_code) ==
    SelectSeq(results, LAMBDA p : p.zip_code = zip_code)

\* a zip filter that keeps the zip codes the given one is a prefix of
zip_filter_prefix(results, zip_code) ==
    IF zip_code # <<>>
    THEN SelectSeq(results,
                   LAMBDA p : /\ Len(zip_code) <= Len(p.zip_code)
                              /\ SubSeq(p.zip_code, 1, Len(zip_code)) = zip_code)
    ELSE results

\* if zip_code: results = [p for p in results if p["zip_code"] == zip_code]
zip_filter(results, zip_code) ==
    IF zip_code # <<>>
    THEN SelectSeq(results, LAMBDA p : p.zip_code = zip_code)
    ELSE results

\* a search that applies the zip filter to the whole list, and keeps what
\* either filter keeps
provider_search_either(provider_name, zip_code) ==
    LET byName == name_filter(MOCK_PROVIDERS, provider_name)
        byZip  == zip_filter(MOCK_PROVIDERS, zip_code)
        results == byName \o byZip
    IN  Return([i \in 1..Len(results) |-> ProviderDetails(results[i])])

\* a search that raises when nothing matches, as the keyed lookups do
provider_search_strict(provider_name, zip_code) ==
    LET results == zip_filter(name_filter(MOCK_PROVIDERS, provider_name),
                              zip_code)
    IN  IF results = <<>>
        THEN Raise("ValueError", "Provider", zip_code)
        ELSE Return([i \in 1..Len(results) |-> ProviderDetails(results[i])])

provider_search(provider_name, zip_code) ==
    LET results == zip_filter(name_filter(MOCK_PROVIDERS, provider_name),
                              zip_code)
    IN  Return([i \in 1..Len(results) |-> ProviderDetails(results[i])])

(***************************************************************************)
(* Arguments the host passes                                               *)
(***************************************************************************)
ClaimNumbers ==
    { CLM123456,
      CLM789012,
      <<>>,
      <<"c","l","m","1","2","3","4","5","6">>,
      <<"C","L","M","1","2","3">>,
      <<"C","L","M","9","9","9","9","9","9">> }

PLAN003 == <<"P","L","A","N","0","0","3">>

PlanIds ==
    { PLAN001,
      PLAN002,
      PLAN003,
      <<>>,
      <<"p","l","a","n","0","0","1">>,
      <<"P","L","A","N">> }

Zip1000 == <<"1","0","0","0">>

ZipCodes == { <<>>, Zip10001, Zip02108, Zip1000, <<"1","0","0","0","1","0">> }

sarah == <<"s","a","r","a","h">>

SampleFilters ==
    { <<>>,
      sarah,
      <<"S","A","R","A","H">>,
      <<"S","a","r","a","h">>,
      <<"s","A","r","A","h">>,
      <<"c","h","e","n">>,
      <<"D","R","."," ">>,
      <<"w","i","l","s","o","n","s">> }

FilterAlphabet == {"s", "S", "o", "n", "N", "e", "E", " "}

RECURSIVE SeqsUpTo(_, _)
SeqsUpTo(S, n) ==
    IF n = 0 THEN { <<>> }
    ELSE LET shorter == SeqsUpTo(S, n - 1)
         IN  shorter \cup { Append(s, x) : s \in shorter, x \in S }

GeneratedFilters == SeqsUpTo(FilterAlphabet, MaxFilterLen)

ClaimCall(claim_number) == [op |-> "get_claim_details", claim_number |-> claim_number]

PlanCall(plan_id) == [op |-> "get_plan_benefits", plan_id |-> plan_id]

SearchCall(provider_name, zip_code) ==
    [op |-> "get_health_provider_details",
     provider_name |-> provider_name, zip_code |-> zip_code]

NoCall == [op |-> "none"]

(***************************************************************************)
(* State machine: the host receives a tool call from a client, runs the    *)
(* handler (no handler awaits, so each runs to completion in one step of   *)
(* the event loop) and the client collects the outcome.                    *)
(***************************************************************************)
Init ==
    /\ MOCK_CLAIMS = InitClaims
    /\ MOCK_PLAN_BENEFITS = InitPlanBenefits
    /\ MOCK_PROVIDERS = InitProviders
    /\ pc = [c \in Clients |-> "idle"]
    /\ call = [c \in Clients |-> NoCall]
    /\ outcome = [c \in Clients |-> NoOutcome]

Request(c, request) ==
    /\ pc[c] = "idle"
    /\ pc' = [pc EXCEPT ![c] = "pending"]
    /\ call' = [call EXCEPT ![c] = request]
    /\ UNCHANGED <<outcome, datasets>>

RequestClaim(c) == \E n \in ClaimNumbers : Request(c, ClaimCall(n))

RequestPlan(c) == \E id \in PlanIds : Request(c, PlanCall(id))

\* the searches that interleaved clients issue
InterleavedFilters == { <<>>, sarah, <<"c","h","e","n">> }

InterleavedZipCodes == { <<>>, Zip10001, Zip02108 }

RequestSearch(c) ==
    \E n \in InterleavedFilters, z \in InterleavedZipCodes :
        Request(c, SearchCall(n, z))

RequestGeneratedSearch(c) ==
    \E n \in SampleFilters \cup GeneratedFilters, z \in ZipCodes :
        Request(c, SearchCall(n, z))

Complete(c, result) ==
    /\ pc' = [pc EXCEPT ![c] = "done"]
    /\ outcome' = [outcome EXCEPT ![c] = result]
    /\ UNCHANGED call

get_claim_details(c) ==
    /\ pc[c] = "pending"
    /\ call[c].op = "get_claim_details"
    /\ Complete(c, claim_details(call[c].claim_number))
    /\ UNCHANGED datasets

get_plan_benefits(c) ==
    /\ pc[c] = "pending"
    /\ call[c].op = "get_plan_benefits"
    /\ Complete(c, plan_benefits(call[c].plan_id))
    /\ UNCHANGED datasets

\* a search that narrows the module's provider list itself
get_health_provider_details_in_place(c) ==
    /\ pc[c] = "pending"
    /\ call[c].op = "get_health_provider_details"
    /\ Complete(c, provider_search(call[c].provider_name, call[c].zip_code))
    /\ MOCK_PROVIDERS' = zip_filter(name_filter(MOCK_PROVIDERS,
                                                call[c].provider_name),
                                    call[c].zip_code)
    /\ UNCHANGED <<MOCK_CLAIMS, MOCK_PLAN_BENEFITS>>

get_health_provider_details(c) ==
    /\ pc[c] = "pending"
    /\ call[c].op = "get_health_provider_details"
    /\ Complete(c, provider_search(call[c].provider_name, call[c].zip_code))
    /\ UNCHANGED datasets

Collect(c) ==
    /\ pc[c] = "done"
    /\ pc' = [pc EXCEPT ![c] = "idle"]
    /\ call' = [call EXCEPT ![c] = NoCall]
    /\ outcome' = [outcome EXCEPT ![c] = NoOutcome]
    /\ UNCHANGED datasets

Next ==
    \E c \in Clients :
        \/ RequestClaim(c)
        \/ RequestPlan(c)
        \/ RequestSearch(c)
        \/ get_claim_details(c)
        \/ get_plan_benefits(c)
        \/ get_health_provider_details(c)
        \/ Collect(c)

Spec == Init /\ [][Next]_vars

(***************************************************************************)
(* The provider search on its own, over generated name filters             *)
(***************************************************************************)
NextSearch ==
    \/ RequestGeneratedSearch(1)
    \/ get_health_provider_details(1)
    \/ Collect(1)

SpecSearch == Init /\ [][NextSearch]_vars

(***************************************************************************)
(* The plan lookup with the plan table as an input: the module's table,    *)
(* and the same table with a further plan that has no benefit entries.     *)
(***************************************************************************)
PlanTables ==
    { InitPlanBenefits,
      [k \in DOMAIN InitPlanBenefits \cup {PLAN003} |->
          IF k = PLAN003 THEN <<>> ELSE InitPlanBenefits[k]] }

InitPlans ==
    /\ MOCK_CLAIMS = InitClaims
    /\ MOCK_PLAN_BENEFITS \in PlanTables
    /\ MOCK_PROVIDERS = InitProviders
    /\ pc = [c \in Clients |-> "idle"]
    /\ call = [c \in Clients |-> NoCall]
    /\ outcome = [c \in Clients |-> NoOutcome]

NextPlans ==
    \E c \in Clients :
        \/ RequestPlan(c)
        \/ get_plan_benefits(c)
        \/ Collect(c)

SpecPlans == InitPlans /\ [][NextPlans]_vars

(***************************************************************************)
(* Vocabulary of the properties                                            *)
(***************************************************************************)
Done(c, op) == pc[c] = "done" /\ call[c].op = op

\* the NotFound condition carrying id
NotFound(what, id) ==
    [tag |-> "raise", kind |-> "ValueError", what |-> what, id |-> id]

\* a and b are the same letter up to case, or the same character
SameLetter(a, b) ==
    \/ a = b
    \/ \E i \in 1..Len(UpperCase) : {a, b} = {UpperCase[i], LowerCase[i]}

\* f occurs in n as a contiguous substring, letter case apart
OccursIgnoringCase(f, n) ==
    \E off \in 0..(Len(n) - Len(f)) :
        \A k \in 1..Len(f) : SameLetter(f[k], n[off + k])

SameString(a, b) == Len(a) = Len(b) /\ \A k \in 1..Len(a) : a[k] = b[k]

SatisfiesName(p, f) == f = <<>> \/ OccursIgnoringCase(f, p.name)

SatisfiesZip(p, z) == z = <<>> \/ SameString(p.zip_code, z)

\* positions of the provider list that satisfy both filters
Kept(f, z) ==
    { i \in 1..Len(MOCK_PROVIDERS) :
        SatisfiesName(MOCK_PROVIDERS[i], f) /\ SatisfiesZip(MOCK_PROVIDERS[i], z) }

SameProvider(out, stored) ==
    /\ out.name = stored.name
    /\ out.specialty = stored.specialty
    /\ out.address = stored.address
    /\ out.city = stored.city
    /\ out.state = stored.state
    /\ out.zip_code = stored.zip_code
    /\ out.phone = stored.phone
    /\ out.accepting_new_patients = stored.accepting_new_patients
    /\ out.languages = stored.languages

\* value lists the providers at the positions kept, each once, in list order
IsSelection(value, kept) ==
    /\ Len(value) = Cardinality(kept)
    /\ \A i \in kept :
          SameProvider(value[1 + Cardinality({j \in kept : j < i})],
                       MOCK_PROVIDERS[i])

\* the strings that differ from s in letter case only
RECURSIVE CaseVariants(_)
CaseVariants(s) ==
    IF s = <<>> THEN { <<>> }
    ELSE LET heads == {Head(s)} \cup
                      { x \in {UpperCase[i] : i \in 1..Len(UpperCase)} \cup
                              {LowerCase[i] : i \in 1..Len(LowerCase)} :
                          SameLetter(x, Head(s)) }
         IN  { <<x>> \o r : x \in heads, r \in CaseVariants(Tail(s)) }

chen == <<"c","h","e","n">>

(***************************************************************************)
(* Properties                                                              *)
(***************************************************************************)
\* C1: for a claim number that is a key of the claims table,
\* get_claim_details returns a record whose claim_number is the caller's
\* argument and whose other seven fields are the values stored under the key.
ClaimFound ==
    \A c \in Clients :
        (Done(c, "get_claim_details") /\ call[c].claim_number \in DOMAIN MOCK_CLAIMS)
        => /\ outcome[c].tag = "return"
           /\ LET r == outcome[c].value
                  stored == MOCK_CLAIMS[call[c].claim_number]
              IN  /\ r.claim_number = call[c].claim_number
                  /\ r.status = stored.status
                  /\ r.date_of_service = stored.date_of_service
                  /\ r.provider_name = stored.provider_name
                  /\ r.total_amount = stored.total_amount
                  /\ r.amount_covered = stored.amount_covered
                  /\ r.patient_responsibility = stored.patient_responsibility
                  /\ r.service_description = stored.service_description

ClaimFoundWitness ==
    \E c \in Clients :
        /\ Done(c, "get_claim_details")
        /\ call[c].claim_number = CLM789012
        /\ outcome[c].tag = "return"
        /\ outcome[c].value.amount_covered = 2000

\* C2: get_claim_details fails exactly for the strings that are not a key of
\* the claims table (the empty string, a case variant and a prefix of a key
\* among them), and the failure is NotFound carrying the string it was given.
ClaimNotFound ==
    \A c \in Clients :
        Done(c, "get_claim_details")
        => /\ (~ \E k \in DOMAIN MOCK_CLAIMS : SameString(k, call[c].claim_number))
              => outcome[c] = NotFound("Claim", call[c].claim_number)
           /\ outcome[c].tag = "raise"
              => ~ \E k \in DOMAIN MOCK_CLAIMS : SameString(k, call[c].claim_number)

ClaimNotFoundWitness ==
    \E c, d \in Clients :
        /\ Done(c, "get_claim_details")
        /\ call[c].claim_number = lower(CLM123456)
        /\ outcome[c].tag = "raise"
        /\ Done(d, "get_claim_details")
        /\ call[d].claim_number \in {<<>>, SubSeq(CLM123456, 1, 6)}
        /\ outcome[d].tag = "raise"

\* C3: for a plan id that is a key of the plan-benefits table,
\* get_plan_benefits returns as many entries as are stored, the i-th with
\* the service, coverage and limitations of the i-th stored entry.
PlanBenefitsInStoredOrder ==
    \A c \in Clients :
        (Done(c, "get_plan_benefits") /\ call[c].plan_id \in DOMAIN MOCK_PLAN_BENEFITS)
        => /\ outcome[c].tag = "return"
           /\ LET r == outcome[c].value
                  stored == MOCK_PLAN_BENEFITS[call[c].plan_id]
              IN  /\ Len(r) = Len(stored)
                  /\ \A i \in 1..Len(stored) :
                        /\ r[i].service = stored[i].service
                        /\ r[i].coverage = stored[i].coverage
                        /\ r[i].limitations = stored[i].limitations

PlanBenefitsWitness ==
    \E c \in Clients :
        /\ Done(c, "get_plan_benefits")
        /\ call[c].plan_id = PLAN002
        /\ outcome[c].tag = "return"
        /\ Len(outcome[c].value) = 4
        /\ outcome[c].value[4].limitations = "90-day supply available"

\* C4: get_plan_benefits fails with NotFound carrying the plan id if and
\* only if the id is not a key of the plan-benefits table; a plan stored
\* with no benefit entries gives the empty sequence as a result.
PlanNotFoundIffNoKey ==
    \A c \in Clients :
        Done(c, "get_plan_benefits")
        => /\ (outcome[c].tag = "raise"
                 <=> ~ \E k \in DOMAIN MOCK_PLAN_BENEFITS :
                          SameString(k, call[c].plan_id))
           /\ outcome[c].tag = "raise"
                 => outcome[c] = NotFound("Plan", call[c].plan_id)
           /\ (/\ call[c].plan_id \in DOMAIN MOCK_PLAN_BENEFITS
               /\ Len(MOCK_PLAN_BENEFITS[call[c].plan_id]) = 0)
                 => outcome[c] = [tag |-> "return", value |-> <<>>]

PlanNotFoundWitness ==
    \E c, d \in Clients :
        /\ Done(c, "get_plan_benefits")
        /\ call[c].plan_id \in DOMAIN MOCK_PLAN_BENEFITS
        /\ MOCK_PLAN_BENEFITS[call[c].plan_id] = <<>>
        /\ outcome[c].tag = "return"
        /\ Done(d, "get_plan_benefits")
        /\ call[d].plan_id \notin DOMAIN MOCK_PLAN_BENEFITS
        /\ outcome[d].tag = "raise"

\* C5: get_health_provider_details returns exactly the providers that
\* satisfy both the name filter and the zip filter (an empty filter being
\* satisfied by every provider), each once and in the order of the provider
\* list; "chen" with "02108" returns the empty sequence.
SearchIsConjunction ==
    \A c \in Clients :
        Done(c, "get_health_provider_details")
        => /\ outcome[c].tag = "return"
           /\ IsSelection(outcome[c].value,
                          Kept(call[c].provider_name, call[c].zip_code))
           /\ (call[c].provider_name = chen /\ call[c].zip_code = Zip02108)
                 => outcome[c].value = <<>>

SearchIsConjunctionWitness ==
    \E c \in Clients :
        /\ Done(c, "get_health_provider_details")
        /\ call[c].provider_name = chen
        /\ call[c].zip_code = Zip02108
        /\ outcome[c].tag = "return"
        /\ Kept(chen, <<>>) # {}
        /\ Kept(<<>>, Zip02108) # {}

\* C6: with both filters empty, get_health_provider_details returns every
\* provider of the list, as many as the list has, in the list's order.
SearchWithoutFilters ==
    \A c \in Clients :
        (/\ Done(c, "get_health_provider_details")
         /\ call[c].provider_name = <<>>
         /\ call[c].zip_code = <<>>)
        => /\ outcome[c].tag = "return"
           /\ Len(outcome[c].value) = Len(MOCK_PROVIDERS)
           /\ \A i \in 1..Len(MOCK_PROVIDERS) :
                 SameProvider(outcome[c].value[i], MOCK_PROVIDERS[i])

SearchWithoutFiltersWitness ==
    \E c \in Clients :
        /\ Done(c, "get_health_provider_details")
        /\ call[c].provider_name = <<>>
        /\ call[c].zip_code = <<>>
        /\ outcome[c].tag = "return"
        /\ Len(outcome[c].value) = 3

\* C7: the name filter is a case-insensitive substring match: filters that
\* differ only in letter case give the same result for the same zip filter,
\* and a provider that passes the zip filter is in the result exactly when
\* the filter occurs in its name as a contiguous substring, case apart.
NameFilterIgnoresCase ==
    \A c \in Clients :
        Done(c, "get_health_provider_details")
        => /\ \A g \in CaseVariants(call[c].provider_name) :
                 provider_search(g, call[c].zip_code) = outcome[c]
           /\ outcome[c].tag = "return"
           /\ \A i \in 1..Len(MOCK_PROVIDERS) :
                 SatisfiesZip(MOCK_PROVIDERS[i], call[c].zip_code)
                 => ((\E k \in 1..Len(outcome[c].value) :
                         SameProvider(outcome[c].value[k], MOCK_PROVIDERS[i]))
                     <=> OccursIgnoringCase(call[c].provider_name,
                                            MOCK_PROVIDERS[i].name))

NameFilterIgnoresCaseWitness ==
    \E c \in Clients :
        /\ Done(c, "get_health_provider_details")
        /\ call[c].provider_name = <<"s","A","r","A","h">>
        /\ call[c].zip_code = <<>>
        /\ outcome[c].tag = "return"
        /\ Len(outcome[c].value) = 1
        /\ outcome[c].value[1].name = NameSarahJohnson

\* C8: the zip filter is exact string equality: with a zip filter and no
\* name filter the result is exactly the providers whose zip_code equals the
\* filter (two for "10001"), and a filter that is only a prefix of stored
\* zip codes ("1000") returns no provider.
ZipFilterIsEquality ==
    \A c \in Clients :
        (/\ Done(c, "get_health_provider_details")
         /\ call[c].provider_name = <<>>
         /\ call[c].zip_code # <<>>)
        => /\ outcome[c].tag = "return"
           /\ IsSelection(outcome[c].value,
                          { i \in 1..Len(MOCK_PROVIDERS) :
                              SameString(MOCK_PROVIDERS[i].zip_code, call[c].zip_code) })
           /\ call[c].zip_code = Zip10001 => Len(outcome[c].value) = 2
           /\ call[c].zip_code = Zip1000 => outcome[c].value = <<>>

ZipFilterIsEqualityWitness ==
    \E c \in Clients :
        /\ Done(c, "get_health_provider_details")
        /\ call[c].provider_name = <<>>
        /\ call[c].zip_code = Zip1000
        /\ outcome[c].tag = "return"
        /\ \E i \in 1..Len(MOCK_PROVIDERS) :
              SubSeq(MOCK_PROVIDERS[i].zip_code, 1, 4) = Zip1000

\* C9: get_health_provider_details never fails: it returns a sequence for
\* every pair of filters, the empty one when no provider satisfies them.
SearchNeverFails ==
    \A c \in Clients :
        Done(c, "get_health_provider_details")
        => /\ outcome[c].tag = "return"
           /\ Kept(call[c].provider_name, call[c].zip_code) = {}
                 => outcome[c].value = <<>>

SearchNeverFailsWitness ==
    \E c \in Clients :
        /\ Done(c, "get_health_provider_details")
        /\ Kept(call[c].provider_name, call[c].zip_code) = {}
        /\ call[c].provider_name # <<>>
        /\ call[c].zip_code # <<>>
        /\ outcome[c].tag = "return"

\* C10: the claims table, the plan-benefits table and the provider list
\* keep their initial values whatever calls run, and two calls with the
\* same arguments end the same way, as a result or as a failure.
DatasetsImmutable ==
    /\ MOCK_CLAIMS = InitClaims
    /\ MOCK_PLAN_BENEFITS = InitPlanBenefits
    /\ MOCK_PROVIDERS = InitProviders
    /\ \A c, d \in Clients :
          (pc[c] = "done" /\ pc[d] = "done" /\ call[c] = call[d])
          => outcome[c] = outcome[d]

DatasetsImmutableWitness ==
    \E c, d \in Clients :
        /\ c # d
        /\ Done(c, "get_health_provider_details")
        /\ Done(d, "get_health_provider_details")
        /\ call[c] = call[d]
        /\ call[c].provider_name = chen
        /\ Len(outcome[c].value) = 1

====
